---------------------------- MODULE Spec2Model ----------------------------
(***************************************************************************)
(* Verification model of surya/detection.py: the greedy batch planner of   *)
(* batch_detection, its tile reassembly loop, and the producer/consumer    *)
(* pipeline of batch_text_detection.                                       *)
(*                                                                         *)
(* Image indices are the 0-based indices of the Python code; TLA+          *)
(* sequences are 1-based, so images[j] of the code is images[j + 1] here.  *)
(***************************************************************************)
EXTENDS Integers, Sequences, FiniteSets, TLC

(***************************************************************************)
(* The state: the planner's loop, one inference call's loops, and the      *)
(* pipeline of batch_text_detection.                                       *)
(***************************************************************************)
VARIABLES splits_per_image, batch_size, plan_i, plan, plan_pc

planVars == <<splits_per_image, batch_size, plan_i, plan, plan_pc>>

VARIABLES batch_images, processor_height, splits, logits, preds, tile_i, tile_pc

tileVars == <<batch_images, processor_height, splits, logits, preds, tile_i, tile_pc>>

VARIABLES images, settings, m_pc, results, result_lock, max_workers, parallelize,
          batch_queue, gen, model_calls, p_pc, p_batch,
          c_pc, c_batch, c_i, batch_results, futures, executor

pipeVars == <<images, settings, m_pc, results, result_lock, max_workers, parallelize,
              batch_queue, gen, model_calls, p_pc, p_batch,
              c_pc, c_batch, c_i, batch_results, futures, executor>>

vars == <<planVars, tileVars, pipeVars>>

(***************************************************************************)
(* Bounds of the model.                                                    *)
(***************************************************************************)
\* longest list of tile counts handed to the planner
MaxPlanImages == 4
\* largest tile count of one image in the planner's inputs
MaxSplits == 3
\* largest explicit batch_size handed to the planner
MaxBudget == 4

RECURSIVE SeqSum(_)
SeqSum(s) == IF s = <<>> THEN 0 ELSE Head(s) + SeqSum(Tail(s))

RECURSIVE Flatten(_)
Flatten(ss) == IF ss = <<>> THEN <<>> ELSE Head(ss) \o Flatten(Tail(ss))

\* all sequences over S of length 0..n
SeqsUpTo(S, n) == UNION {[1..k -> S] : k \in 0..n}

\* <<0, 1, ..., n-1>>
Range0(n) == [k \in 1..n |-> k - 1]

(***************************************************************************)
(* batch_detection, lines 45-58: the greedy batch planner.                 *)
(* A planner state is [batches, current_batch, current_batch_size].        *)
(***************************************************************************)
PlanInit == [batches |-> <<>>, current_batch |-> <<>>, current_batch_size |-> 0]

\* Mutation: the batch is closed but current_batch is not emptied.
PlanStepNoReset(st, i, n_splits, bsize) ==
    LET over == st.current_batch_size + n_splits > bsize
        closed == IF over /\ Len(st.current_batch) > 0
                  THEN Append(st.batches, st.current_batch)
                  ELSE st.batches
        size0 == IF over THEN 0 ELSE st.current_batch_size
    IN  [batches |-> closed,
         current_batch |-> Append(st.current_batch, i),
         current_batch_size |-> size0 + n_splits]

\* Mutation: the budget test is >= instead of >.
PlanStepGe(st, i, n_splits, bsize) ==
    LET over == st.current_batch_size + n_splits >= bsize
        closed == IF over /\ Len(st.current_batch) > 0
                  THEN Append(st.batches, st.current_batch)
                  ELSE st.batches
        cur0 == IF over THEN <<>> ELSE st.current_batch
        size0 == IF over THEN 0 ELSE st.current_batch_size
    IN  [batches |-> closed,
         current_batch |-> Append(cur0, i),
         current_batch_size |-> size0 + n_splits]

\* One iteration of the loop of lines 48-55, for image i with n_splits tiles.
PlanStep(st, i, n_splits, bsize) ==
    LET over == st.current_batch_size + n_splits > bsize
        closed == IF over /\ Len(st.current_batch) > 0
                  THEN Append(st.batches, st.current_batch)
                  ELSE st.batches
        cur0 == IF over THEN <<>> ELSE st.current_batch
        size0 == IF over THEN 0 ELSE st.current_batch_size
    IN  [batches |-> closed,
         current_batch |-> Append(cur0, i),
         current_batch_size |-> size0 + n_splits]

\* Lines 57-58: the last, still open batch is closed if it is not empty.
PlanFlush(st) ==
    IF Len(st.current_batch) > 0
    THEN [st EXCEPT !.batches = Append(st.batches, st.current_batch)]
    ELSE st

\* Lines 45-58 as a whole: the batches planned for the tile counts.  The state
\* after a step is bound to a name (the one element of a singleton set), so
\* that the step is computed once.
RECURSIVE PlanFold(_, _, _, _)
PlanFold(st, i, counts, bsize) ==
    IF i >= Len(counts) THEN st
    ELSE CHOOSE end \in {PlanFold(next, i + 1, counts, bsize) :
                            next \in {PlanStep(st, i, counts[i + 1], bsize)}} : TRUE

PlanBatches(counts, bsize) == PlanFlush(PlanFold(PlanInit, 0, counts, bsize)).batches

\* total tile count of a batch of image indices
BatchTiles(b, counts) == SeqSum([k \in 1..Len(b) |-> counts[b[k] + 1]])

(***************************************************************************)
(* The planner as a state machine: one step per loop iteration.            *)
(***************************************************************************)
\* The end-to-end scenario of the specification: ten images, budget 4.
Scenario == << <<3, 3, 1, 1, 1, 1, 1, 1, 1, 1>>, 4 >>

\* lines 45-47
PlanStart ==
    /\ plan_i = 0
    /\ plan = PlanInit
    /\ plan_pc = "loop"

PlannerInputs ==
    (SeqsUpTo(1..MaxSplits, MaxPlanImages) \X (0..MaxBudget))
        \cup {Scenario}

PlannerInit ==
    /\ \E inp \in PlannerInputs :
          /\ splits_per_image = inp[1]
          /\ batch_size = inp[2]
    /\ PlanStart

\* lines 48-55
PlanLoop ==
    /\ plan_pc = "loop"
    /\ plan_i < Len(splits_per_image)
    /\ plan' = PlanStep(plan, plan_i, splits_per_image[plan_i + 1], batch_size)
    /\ plan_i' = plan_i + 1
    /\ UNCHANGED <<splits_per_image, batch_size, plan_pc, tileVars, pipeVars>>

\* lines 57-58
PlanEnd ==
    /\ plan_pc = "loop"
    /\ plan_i = Len(splits_per_image)
    /\ plan' = PlanFlush(plan)
    /\ plan_pc' = "planned"
    /\ UNCHANGED <<splits_per_image, batch_size, plan_i, tileVars, pipeVars>>

PlannerNext == PlanLoop \/ PlanEnd


(***************************************************************************)
(* Images, the Tiler and the model.                                        *)
(*                                                                         *)
(* An image is [size |-> <<width, height>>, tag |-> t, is_image |-> TRUE]; *)
(* the tag stands for its pixel content.  split_image and get_total_splits are imported from  *)
(* surya.input.processing; they are modelled from the specification of the *)
(* Tiler: top-to-bottom tiles of the window height, the last one padded.   *)
(* A tile is a sequence of window-height rows; a row is <<tag, source row>>*)
(* or Pad.                                                                 *)
(***************************************************************************)
\* tallest image of the tiling inputs
MaxHeight == 5
\* largest window height (processor.size["height"]) of the tiling inputs
MaxWindowHeight == 3
\* longest batch of the tiling inputs
MaxBatchImages == 2
\* number of heatmap channels (model.config.num_labels): heatmap and affinity map
HeatmapCount == 2

Widths == {7, 9}
Pad == <<"pad">>

Image(w, h, t) == [size |-> <<w, h>>, tag |-> t, is_image |-> TRUE]
Height(image) == image.size[2]

Min(a, b) == IF a <= b THEN a ELSE b

\* countTiles of the Tiler: ceil(H / W)
get_total_splits(size, W) == (size[2] + W - 1) \div W

\* the tiles of an image from row `top` downwards, with their valid heights
RECURSIVE SplitFrom(_, _, _)
SplitFrom(image, top, W) ==
    IF top >= Height(image) THEN [parts |-> <<>>, heights |-> <<>>]
    ELSE LET rest == SplitFrom(image, top + W, W)
             tile == [r \in 1..W |->
                        IF top + r - 1 < Height(image)
                        THEN <<image.tag, top + r - 1>> ELSE Pad]
         IN  [parts |-> <<tile>> \o rest.parts,
              heights |-> <<Min(W, Height(image) - top)>> \o rest.heights]

split_image(image, W) == SplitFrom(image, 0, W)

\* Lines 73-86: one tile through prepare_image_detection, the model and the
\* resampling to the canonical shape.  The model is the identity transform on
\* rows: channel k of the tile's logits has the window height, row r of it
\* stemming from row r of the tile.
TileLogits(tile) == [k \in 1..HeatmapCount |-> [r \in 1..Len(tile) |-> <<k, tile[r]>>]]

Logits(image_splits) == [i \in 1..Len(image_splits) |-> TileLogits(image_splits[i])]

(***************************************************************************)
(* batch_detection, lines 64-71 and 87-105: tiling a batch and the Tile    *)
(* Reassembler.                                                            *)
(***************************************************************************)
SplitInit == [split_index |-> <<>>, split_heights |-> <<>>, image_splits |-> <<>>]

\* Mutation: image_splits is assigned the image's parts instead of extended.
SplitStepAssign(st, image_idx, image, W) ==
    LET sp == split_image(image, W)
    IN  [image_splits |-> sp.parts,
         split_index |-> st.split_index \o [t \in 1..Len(sp.parts) |-> image_idx],
         split_heights |-> st.split_heights \o sp.heights]

\* One iteration of the loop of lines 67-71, for the batch's image_idx-th image.
SplitStep(st, image_idx, image, W) ==
    LET sp == split_image(image, W)
    IN  [image_splits |-> st.image_splits \o sp.parts,
         split_index |-> st.split_index \o [t \in 1..Len(sp.parts) |-> image_idx],
         split_heights |-> st.split_heights \o sp.heights]

\* pred_heatmap[:height, :]
Rows(heatmap, height) == SubSeq(heatmap, 1, Min(height, Len(heatmap)))

\* Mutation: a later tile is stacked above the image's heatmaps, not below.
ReassembleStepAbove(acc, logit, idx, height, W) ==
    IF Len(acc) <= idx
    THEN Append(acc, logit)
    ELSE LET pred_heatmaps ==
                 IF height < W
                 THEN [k \in 1..HeatmapCount |-> Rows(logit[k], height)]
                 ELSE logit
         IN  [acc EXCEPT ![idx + 1] =
                 [k \in 1..HeatmapCount |-> pred_heatmaps[k] \o @[k]]]

\* One iteration of the loop of lines 88-103: tile logits `logit` of image idx.
ReassembleStep(acc, logit, idx, height, W) ==
    IF Len(acc) <= idx
    THEN Append(acc, logit)
    ELSE LET pred_heatmaps ==
                 IF height < W
                 THEN [k \in 1..HeatmapCount |-> Rows(logit[k], height)]
                 ELSE logit
         IN  [acc EXCEPT ![idx + 1] =
                 [k \in 1..HeatmapCount |-> @[k] \o pred_heatmaps[k]]]

\* The loops of lines 67-71 and 88-103 as a whole.  As in PlanFold, the value
\* after a step is bound to a name, so that the step is computed once.
RECURSIVE SplitFold(_, _, _, _)
SplitFold(st, image_idx, batch, W) ==
    IF image_idx >= Len(batch) THEN st
    ELSE CHOOSE end \in {SplitFold(next, image_idx + 1, batch, W) :
                            next \in {SplitStep(st, image_idx, batch[image_idx + 1], W)}} :
             TRUE

RECURSIVE ReassembleFold(_, _, _, _, _)
ReassembleFold(acc, i, lg, sp, W) ==
    IF i >= Len(lg) THEN acc
    ELSE CHOOSE end \in {ReassembleFold(next, i + 1, lg, sp, W) :
                            next \in {ReassembleStep(acc, lg[i + 1], sp.split_index[i + 1],
                                                     sp.split_heights[i + 1], W)}} :
             TRUE

\* Lines 61-105 for one batch: what the generator yields for these images.
InferBatch(batch, W) ==
    CHOOSE yield \in {<<ReassembleFold(<<>>, 0, lg, sp, W),
                         [j \in 1..Len(batch) |-> batch[j].size]>> :
                          sp \in {SplitFold(SplitInit, 0, batch, W)},
                          lg \in {Logits(SplitFold(SplitInit, 0, batch, W).image_splits)}} :
        TRUE

(***************************************************************************)
(* One inference call as a state machine: a step per loop iteration.       *)
(***************************************************************************)
TileImages == {Image(w, h, 0) : w \in Widths, h \in 1..MaxHeight}

\* lines 64-66
TileStart ==
    /\ splits = SplitInit
    /\ logits = <<>>
    /\ preds = <<>>
    /\ tile_i = 0
    /\ tile_pc = "split"

TileInit ==
    /\ processor_height \in 1..MaxWindowHeight
    /\ \E n \in 1..MaxBatchImages : \E b \in [1..n -> TileImages] :
          batch_images = [j \in 1..n |-> [b[j] EXCEPT !.tag = j - 1]]
    /\ TileStart

\* lines 67-71
SplitLoop ==
    /\ tile_pc = "split"
    /\ tile_i < Len(batch_images)
    /\ splits' = SplitStep(splits, tile_i, batch_images[tile_i + 1], processor_height)
    /\ tile_i' = tile_i + 1
    /\ UNCHANGED <<batch_images, processor_height, logits, preds, tile_pc,
                   planVars, pipeVars>>

\* lines 73-87
Infer ==
    /\ tile_pc = "split"
    /\ tile_i = Len(batch_images)
    /\ logits' = Logits(splits.image_splits)
    /\ preds' = <<>>
    /\ tile_i' = 0
    /\ tile_pc' = "reassemble"
    /\ UNCHANGED <<batch_images, processor_height, splits,
                   planVars, pipeVars>>

\* lines 88-103
ReassembleLoop ==
    /\ tile_pc = "reassemble"
    /\ tile_i < Len(logits)
    /\ preds' = ReassembleStep(preds, logits[tile_i + 1], splits.split_index[tile_i + 1],
                               splits.split_heights[tile_i + 1], processor_height)
    /\ tile_i' = tile_i + 1
    /\ UNCHANGED <<batch_images, processor_height, splits, logits, tile_pc,
                   planVars, pipeVars>>

\* line 105
Yield ==
    /\ tile_pc = "reassemble"
    /\ tile_i = Len(logits)
    /\ tile_pc' = "yielded"
    /\ UNCHANGED <<batch_images, processor_height, splits, logits, preds, tile_i,
                   planVars, pipeVars>>

TileNext == SplitLoop \/ Infer \/ ReassembleLoop \/ Yield

(***************************************************************************)
(* batch_text_detection: the producer/consumer pipeline.                   *)
(*                                                                         *)
(* Python's None is -1 where an integer is expected (batch_size,           *)
(* settings.DETECTOR_BATCH_SIZE) and the empty tuple in the queue, whose   *)
(* other entries are the pairs <<preds, orig_sizes>> the generator yields. *)
(***************************************************************************)
\* longest input list of the pipeline
MaxImages == 5
\* largest explicit batch_size of the pipeline's inputs
MaxPipeBudget == 2
\* window height of the pipeline's processor
PipeWindowHeight == 2
\* settings.DETECTOR_MIN_PARALLEL_THRESH of the pipeline's runs
MinParallelThresh == 2
\* settings.DETECTOR_POSTPROCESSING_CPU_WORKERS of the pipeline's runs
CpuWorkers == 2
\* Queue(maxsize=4), line 134
QueueMaxsize == 4

IsNone(x) == x < 0
Sentinel == <<>>
NotImage == [size |-> <<0, 0>>, tag |-> -1, is_image |-> FALSE]

\* lines 20-28
get_batch_size(cfg) ==
    IF IsNone(cfg.DETECTOR_BATCH_SIZE)
    THEN LET default == 8
             mps == IF cfg.TORCH_DEVICE_MODEL = "mps" THEN 8 ELSE default
         IN  IF cfg.TORCH_DEVICE_MODEL = "cuda" THEN 36 ELSE mps
    ELSE cfg.DETECTOR_BATCH_SIZE

\* Mutation: the argument is tested for truth, so that 0 counts as None.
ResolveBatchSizeFalsy(bsize, cfg) ==
    IF IsNone(bsize) \/ bsize = 0 THEN get_batch_size(cfg) ELSE bsize

\* lines 38-39
ResolveBatchSize(bsize, cfg) == IF IsNone(bsize) THEN get_batch_size(cfg) ELSE bsize

\* Lines 108-124.  bboxes and vertical_lines come from get_and_clean_boxes and
\* get_vertical_lines, functions of the two maps and orig_sizes; the result
\* keeps the maps they are computed from.
parallel_get_lines(pred, orig_sizes) ==
    [heatmap |-> pred[1],
     affinity_map |-> pred[2],
     image_bbox |-> <<0, 0, orig_sizes[1], orig_sizes[2]>>]

mainVars == <<m_pc, results, result_lock, max_workers, parallelize>>
producerVars == <<gen, model_calls, p_pc, p_batch>>
consumerVars == <<c_pc, c_batch, c_i, batch_results, futures, executor>>
inputVars == <<images, settings, planVars, tileVars>>

\* the two kinds of image of the pipeline's inputs: one tile, shorter than the
\* window, and two tiles, the second one padded
PipeImages == {Image(7, PipeWindowHeight - 1, 0), Image(9, 2 * PipeWindowHeight - 1, 0)}

PipeStart ==
    /\ m_pc = "call"
    /\ results = <<>>
    /\ result_lock = "free"
    /\ max_workers = 0
    /\ parallelize = FALSE
    /\ batch_queue = <<>>
    /\ gen = [state |-> "none", batches |-> <<>>, batch_idx |-> 0]
    /\ model_calls = <<>>
    /\ p_pc = "idle"
    /\ p_batch = Sentinel
    /\ c_pc = "idle"
    /\ c_batch = Sentinel
    /\ c_i = 0
    /\ batch_results = <<>>
    /\ futures = <<>>
    /\ executor = "none"

PipeInit ==
    /\ \E n \in 0..MaxImages : \E l \in [1..n -> PipeImages \cup {NotImage}] :
          images = [j \in 1..n |-> IF l[j].is_image THEN [l[j] EXCEPT !.tag = j - 1]
                                                    ELSE l[j]]
    /\ batch_size \in 1..MaxPipeBudget
    /\ processor_height = PipeWindowHeight
    /\ \E s \in BOOLEAN :
          settings = [IN_STREAMLIT |-> s,
                      DETECTOR_MIN_PARALLEL_THRESH |-> MinParallelThresh,
                      DETECTOR_POSTPROCESSING_CPU_WORKERS |-> CpuWorkers,
                      DETECTOR_BATCH_SIZE |-> -1,
                      TORCH_DEVICE_MODEL |-> "cpu"]
    /\ PipeStart

(************************** the calling thread ****************************)
\* Mutation: fan-out is selected when either condition holds.
SetupEither ==
    /\ m_pc = "call"
    /\ gen' = [state |-> "created", batches |-> <<>>, batch_idx |-> 0]
    /\ results' = <<>>
    /\ result_lock' = "free"
    /\ max_workers' = Min(settings.DETECTOR_POSTPROCESSING_CPU_WORKERS, Len(images))
    /\ parallelize' = (~settings.IN_STREAMLIT
                        \/ Len(images) >= settings.DETECTOR_MIN_PARALLEL_THRESH)
    /\ batch_queue' = <<>>
    /\ m_pc' = "start_producer"
    /\ UNCHANGED <<model_calls, p_pc, p_batch, consumerVars, inputVars>>

\* lines 128-134
Setup ==
    /\ m_pc = "call"
    /\ gen' = [state |-> "created", batches |-> <<>>, batch_idx |-> 0]
    /\ results' = <<>>
    /\ result_lock' = "free"
    /\ max_workers' = Min(settings.DETECTOR_POSTPROCESSING_CPU_WORKERS, Len(images))
    /\ parallelize' = (~settings.IN_STREAMLIT
                        /\ Len(images) >= settings.DETECTOR_MIN_PARALLEL_THRESH)
    /\ batch_queue' = <<>>
    /\ m_pc' = "start_producer"
    /\ UNCHANGED <<model_calls, p_pc, p_batch, consumerVars, inputVars>>

\* line 171
StartProducer ==
    /\ m_pc = "start_producer"
    /\ p_pc' = "next"
    /\ m_pc' = "start_consumer"
    /\ UNCHANGED <<results, result_lock, max_workers, parallelize, batch_queue,
                   gen, model_calls, p_batch, consumerVars, inputVars>>

\* line 172
StartConsumer ==
    /\ m_pc = "start_consumer"
    /\ c_pc' = "start"
    /\ m_pc' = "join_producer"
    /\ UNCHANGED <<results, result_lock, max_workers, parallelize, batch_queue,
                   producerVars, c_batch, c_i, batch_results, futures, executor,
                   inputVars>>

\* line 175: join returns once the producer thread has ended, however it ended
JoinProducer ==
    /\ m_pc = "join_producer"
    /\ p_pc \in {"done", "failed"}
    /\ m_pc' = "join_consumer"
    /\ UNCHANGED <<results, result_lock, max_workers, parallelize, batch_queue,
                   producerVars, consumerVars, inputVars>>

\* lines 176-178: join the consumer and return results
JoinConsumer ==
    /\ m_pc = "join_consumer"
    /\ c_pc \in {"done", "failed"}
    /\ m_pc' = "returned"
    /\ UNCHANGED <<results, result_lock, max_workers, parallelize, batch_queue,
                   producerVars, consumerVars, inputVars>>

(***************************** the producer *******************************)
\* Line 137, the first next(): the generator body runs lines 37-58.  A failed
\* assertion ends the generator and, uncaught, the producer thread.
GenStart ==
    /\ p_pc = "next"
    /\ gen.state = "created"
    /\ IF \A j \in 1..Len(images) : images[j].is_image
       THEN /\ gen' = [state |-> "running",
                       batches |-> PlanBatches(
                           [j \in 1..Len(images) |->
                               get_total_splits(images[j].size, processor_height)],
                           ResolveBatchSize(batch_size, settings)),
                       batch_idx |-> 0]
            /\ p_pc' = "next"
       ELSE /\ gen' = [gen EXCEPT !.state = "raised"]
            /\ p_pc' = "failed"
    /\ UNCHANGED <<mainVars, batch_queue, model_calls, p_batch, consumerVars, inputVars>>

BatchImages(idxs) == [k \in 1..Len(idxs) |-> images[idxs[k] + 1]]

\* Line 137, lines 60-105 of the generator: the model call returns and the
\* batch's predictions are yielded.
GenInfer ==
    /\ p_pc = "next"
    /\ gen.state = "running"
    /\ gen.batch_idx < Len(gen.batches)
    /\ model_calls' = Append(model_calls, <<gen.batch_idx, "returned">>)
    /\ p_batch' = InferBatch(BatchImages(gen.batches[gen.batch_idx + 1]), processor_height)
    /\ gen' = [gen EXCEPT !.batch_idx = @ + 1]
    /\ p_pc' = "put"
    /\ UNCHANGED <<mainVars, batch_queue, consumerVars, inputVars>>

\* Mutation: a model call that raised is tried again.
GenInferRetry ==
    /\ p_pc = "next"
    /\ gen.state = "running"
    /\ gen.batch_idx < Len(gen.batches)
    /\ model_calls' = Append(model_calls, <<gen.batch_idx, "raised">>)
    /\ UNCHANGED <<mainVars, batch_queue, gen, p_pc, p_batch, consumerVars, inputVars>>

\* Line 137, line 78 of the generator: the model call raises (resource
\* exhaustion, say); nothing catches it and the producer thread ends.
GenInferRaise ==
    /\ p_pc = "next"
    /\ gen.state = "running"
    /\ gen.batch_idx < Len(gen.batches)
    /\ model_calls' = Append(model_calls, <<gen.batch_idx, "raised">>)
    /\ gen' = [gen EXCEPT !.state = "raised"]
    /\ p_pc' = "failed"
    /\ UNCHANGED <<mainVars, batch_queue, p_batch, consumerVars, inputVars>>

\* line 137: the generator is exhausted, the for loop ends
GenStop ==
    /\ p_pc = "next"
    /\ gen.state = "running"
    /\ gen.batch_idx = Len(gen.batches)
    /\ gen' = [gen EXCEPT !.state = "exhausted"]
    /\ p_pc' = "put_none"
    /\ UNCHANGED <<mainVars, batch_queue, model_calls, p_batch, consumerVars, inputVars>>

\* Mutation: put does not wait for room in the queue.
ProducerPutUnbounded ==
    /\ p_pc = "put"
    /\ batch_queue' = Append(batch_queue, p_batch)
    /\ p_batch' = Sentinel
    /\ p_pc' = "next"
    /\ UNCHANGED <<mainVars, gen, model_calls, consumerVars, inputVars>>

\* line 138: put blocks while the queue holds maxsize entries
ProducerPut ==
    /\ p_pc = "put"
    /\ Len(batch_queue) < QueueMaxsize
    /\ batch_queue' = Append(batch_queue, p_batch)
    /\ p_batch' = Sentinel
    /\ p_pc' = "next"
    /\ UNCHANGED <<mainVars, gen, model_calls, consumerVars, inputVars>>

\* Mutation: the producer ends without enqueuing the sentinel.
ProducerEndNoSentinel ==
    /\ p_pc = "put_none"
    /\ p_pc' = "done"
    /\ UNCHANGED <<mainVars, batch_queue, gen, model_calls, p_batch, consumerVars,
                   inputVars>>

\* line 139
ProducerPutNone ==
    /\ p_pc = "put_none"
    /\ Len(batch_queue) < QueueMaxsize
    /\ batch_queue' = Append(batch_queue, Sentinel)
    /\ p_pc' = "done"
    /\ UNCHANGED <<mainVars, gen, model_calls, p_batch, consumerVars, inputVars>>

(***************************** the consumer *******************************)
\* lines 142-144 and 154-155: the pool is opened if fan-out is selected
ConsumerStart ==
    /\ c_pc = "start"
    /\ executor' = IF parallelize THEN "open" ELSE executor
    /\ c_pc' = "get"
    /\ UNCHANGED <<mainVars, batch_queue, producerVars, c_batch, c_i, batch_results,
                   futures, inputVars>>

\* Lines 145-149 and 156-160: get blocks while the queue is empty.  On the
\* sentinel the loop is left; otherwise the batch's images are submitted to the
\* pool (line 150) or the in-process loop starts (line 161).
ConsumerGet ==
    /\ c_pc = "get"
    /\ batch_queue # <<>>
    /\ batch_queue' = Tail(batch_queue)
    /\ IF Head(batch_queue) = Sentinel
       THEN /\ c_pc' = IF parallelize THEN "close_pool" ELSE "done"
            /\ UNCHANGED <<c_batch, c_i, batch_results, futures>>
       ELSE /\ c_batch' = Head(batch_queue)
            /\ c_i' = 0
            /\ batch_results' = <<>>
            /\ futures' = IF parallelize
                          THEN [j \in 1..Len(Head(batch_queue)[1]) |-> "pending"]
                          ELSE <<>>
            /\ c_pc' = IF parallelize THEN "map" ELSE "loop"
    /\ UNCHANGED <<mainVars, producerVars, executor, inputVars>>

\* the tasks the pool's max_workers processes are working on: the first
\* max_workers unfinished ones, in submission order
Running(j) ==
    /\ futures[j] = "pending"
    /\ Cardinality({i \in 1..(j - 1) : futures[i] = "pending"}) < max_workers

\* line 150, in a worker process: parallel_get_lines returns for task j
WorkerDone ==
    /\ c_pc = "map"
    /\ \E j \in 1..Len(futures) :
          /\ Running(j)
          /\ futures' = [futures EXCEPT ![j] = "done"]
    /\ UNCHANGED <<mainVars, batch_queue, producerVars, c_pc, c_batch, c_i,
                   batch_results, executor, inputVars>>

\* line 150, in a worker process: task j raises, or its process dies
WorkerRaise ==
    /\ c_pc = "map"
    /\ \E j \in 1..Len(futures) :
          /\ Running(j)
          /\ futures' = [futures EXCEPT ![j] = "raised"]
    /\ UNCHANGED <<mainVars, batch_queue, producerVars, c_pc, c_batch, c_i,
                   batch_results, executor, inputVars>>

\* line 150: list(executor.map(...)) has every result, in submission order
MapCollect ==
    /\ c_pc = "map"
    /\ \A j \in 1..Len(futures) : futures[j] = "done"
    /\ batch_results' = [j \in 1..Len(futures) |->
                            parallel_get_lines(c_batch[1][j], c_batch[2][j])]
    /\ c_pc' = "lock"
    /\ UNCHANGED <<mainVars, batch_queue, producerVars, c_batch, c_i, futures,
                   executor, inputVars>>

\* line 150: the iteration over the map's results reaches a task that raised;
\* the exception leaves the with block of line 143
MapRaise ==
    /\ c_pc = "map"
    /\ \E j \in 1..Len(futures) :
          /\ futures[j] = "raised"
          /\ \A i \in 1..(j - 1) : futures[i] = "done"
    /\ c_pc' = "unwind"
    /\ UNCHANGED <<mainVars, batch_queue, producerVars, c_batch, c_i, batch_results,
                   futures, executor, inputVars>>

\* Mutation: the pool is not shut down when an exception leaves the loop.
UnwindNoClose ==
    /\ c_pc = "unwind"
    /\ c_pc' = "failed"
    /\ UNCHANGED <<mainVars, batch_queue, producerVars, c_batch, c_i, batch_results,
                   futures, executor, inputVars>>

\* line 143: the with block is left by the exception: the pool is shut down
\* and, nothing catching the exception, the consumer thread ends
ClosePoolRaise ==
    /\ c_pc = "unwind"
    /\ executor' = "closed"
    /\ c_pc' = "failed"
    /\ UNCHANGED <<mainVars, batch_queue, producerVars, c_batch, c_i, batch_results,
                   futures, inputVars>>

\* lines 161-162, one image of the in-process loop
SeqExtract ==
    /\ c_pc = "loop"
    /\ c_i < Len(c_batch[1])
    /\ batch_results' = Append(batch_results,
                               parallel_get_lines(c_batch[1][c_i + 1], c_batch[2][c_i + 1]))
    /\ c_i' = c_i + 1
    /\ c_pc' = IF c_i + 1 = Len(c_batch[1]) THEN "lock" ELSE "loop"
    /\ UNCHANGED <<mainVars, batch_queue, producerVars, c_batch, futures, executor,
                   inputVars>>

\* lines 161-162: parallel_get_lines raises; the consumer thread ends
SeqExtractRaise ==
    /\ c_pc = "loop"
    /\ c_i < Len(c_batch[1])
    /\ c_pc' = "failed"
    /\ UNCHANGED <<mainVars, batch_queue, producerVars, c_batch, c_i, batch_results,
                   futures, executor, inputVars>>

\* Mutation: the results are extended without the lock being taken.
AcquireSkipped ==
    /\ c_pc = "lock"
    /\ c_pc' = "extend"
    /\ UNCHANGED <<mainVars, batch_queue, producerVars, c_batch, c_i, batch_results,
                   futures, executor, inputVars>>

\* lines 152 and 164: with result_lock
Acquire ==
    /\ c_pc = "lock"
    /\ result_lock = "free"
    /\ result_lock' = "consumer"
    /\ c_pc' = "extend"
    /\ UNCHANGED <<m_pc, results, max_workers, parallelize, batch_queue, producerVars,
                   c_batch, c_i, batch_results, futures, executor, inputVars>>

\* lines 153 and 165
Extend ==
    /\ c_pc = "extend"
    /\ results' = results \o batch_results
    /\ c_pc' = "unlock"
    /\ UNCHANGED <<m_pc, result_lock, max_workers, parallelize, batch_queue,
                   producerVars, c_batch, c_i, batch_results, futures, executor,
                   inputVars>>

\* the end of the with block of lines 152 and 164
Release ==
    /\ c_pc = "unlock"
    /\ result_lock' = "free"
    /\ c_pc' = "get"
    /\ UNCHANGED <<m_pc, results, max_workers, parallelize, batch_queue, producerVars,
                   c_batch, c_i, batch_results, futures, executor, inputVars>>

\* line 143: the with block is left after the break of line 147
ClosePool ==
    /\ c_pc = "close_pool"
    /\ executor' = "closed"
    /\ c_pc' = "done"
    /\ UNCHANGED <<mainVars, batch_queue, producerVars, c_batch, c_i, batch_results,
                   futures, inputVars>>

(***************************************************************************)
(* The specifications.  Each one runs one part of the program; the         *)
(* variables of the other parts rest.                                      *)
(***************************************************************************)
PlanRest ==
    /\ splits_per_image = <<>>
    /\ plan_i = 0
    /\ plan = PlanInit
    /\ plan_pc = "rest"

TileRest ==
    /\ batch_images = <<>>
    /\ splits = SplitInit
    /\ logits = <<>>
    /\ preds = <<>>
    /\ tile_i = 0
    /\ tile_pc = "rest"

PipeRest ==
    /\ images = <<>>
    /\ settings = [IN_STREAMLIT |-> FALSE]
    /\ PipeStart

\* longest input list of the runs of many one-image batches
MaxLongImages == 7

\* Runs of up to MaxLongImages batches: every image of one tile, a budget of
\* one tile per batch.
LongInit ==
    /\ \E n \in 0..MaxLongImages :
          images = [j \in 1..n |-> Image(7, PipeWindowHeight - 1, j - 1)]
    /\ batch_size = 1
    /\ processor_height = PipeWindowHeight
    /\ \E s \in BOOLEAN :
          settings = [IN_STREAMLIT |-> s,
                      DETECTOR_MIN_PARALLEL_THRESH |-> MinParallelThresh,
                      DETECTOR_POSTPROCESSING_CPU_WORKERS |-> CpuWorkers,
                      DETECTOR_BATCH_SIZE |-> -1,
                      TORCH_DEVICE_MODEL |-> "cpu"]
    /\ PipeStart

\* longest list of tile counts of the runs that resolve the budget
MaxBudgetImages == 2
\* largest settings.DETECTOR_BATCH_SIZE of the runs that resolve the budget
MaxOverride == 2

Devices == {"cpu", "mps", "cuda"}

\* batch_detection is called with a batch_size or None, under settings with or
\* without DETECTOR_BATCH_SIZE, on any device.
BudgetInit ==
    /\ splits_per_image \in SeqsUpTo(1..MaxSplits, MaxBudgetImages)
    /\ batch_size \in {-1} \cup (0..MaxBudget)
    /\ \E o \in {-1} \cup (0..MaxOverride) : \E d \in Devices :
          settings = [IN_STREAMLIT |-> FALSE,
                      DETECTOR_MIN_PARALLEL_THRESH |-> MinParallelThresh,
                      DETECTOR_POSTPROCESSING_CPU_WORKERS |-> CpuWorkers,
                      DETECTOR_BATCH_SIZE |-> o,
                      TORCH_DEVICE_MODEL |-> d]
    /\ plan_i = 0
    /\ plan = PlanInit
    /\ plan_pc = "resolve"

\* lines 38-39
ResolveBudget ==
    /\ plan_pc = "resolve"
    /\ batch_size' = ResolveBatchSize(batch_size, settings)
    /\ plan_pc' = "loop"
    /\ UNCHANGED <<splits_per_image, plan_i, plan, tileVars, pipeVars>>

BudgetNext == ResolveBudget \/ PlanLoop \/ PlanEnd

BudgetSpecInit ==
    BudgetInit /\ processor_height = 1 /\ TileRest /\ images = <<>> /\ PipeStart

\* the budget's resolution, followed by the planner
SpecBudget == BudgetSpecInit /\ [][BudgetNext]_vars

PlannerSpecInit == PlannerInit /\ processor_height = 1 /\ TileRest /\ PipeRest

\* the planner alone
SpecPlanner == PlannerSpecInit /\ [][PlannerNext]_vars

TileSpecInit == TileInit /\ batch_size = 1 /\ PlanRest /\ PipeRest

\* one inference call alone
SpecTile == TileSpecInit /\ [][TileNext]_vars

Init == PipeInit /\ PlanRest /\ TileRest

Next ==
    \/ Setup \/ StartProducer \/ StartConsumer \/ JoinProducer \/ JoinConsumer
    \/ GenStart \/ GenInferRaise \/ GenInfer \/ GenStop \/ ProducerPut \/ ProducerPutNone
    \/ ConsumerStart \/ ConsumerGet \/ WorkerDone \/ WorkerRaise \/ MapCollect
    \/ MapRaise \/ ClosePoolRaise \/ SeqExtract \/ SeqExtractRaise
    \/ Acquire \/ Extend \/ Release \/ ClosePool

\* batch_text_detection
Spec == Init /\ [][Next]_vars

LongSpecInit == LongInit /\ PlanRest /\ TileRest

\* batch_text_detection on many batches
SpecLong == LongSpecInit /\ [][Next]_vars

\* The threads are scheduled by the operating system and the worker processes
\* run: while some thread or worker can take a step, a step is taken.  (Less
\* than the fairness each thread has on its own.)
FairSpec == Spec /\ WF_vars(Next)

(***************************************************************************)
(* Claims about the Tile Reassembler.                                      *)
(***************************************************************************)
Yielded == tile_pc = "yielded"

\* valid heights of the tiles of the batch's image_idx-th image
ValidHeights(image_idx) ==
    SeqSum([i \in 1..Len(splits.split_index) |->
               IF splits.split_index[i] = image_idx THEN splits.split_heights[i] ELSE 0])

\* C5: for every image of an inference call, of one tile or several, each
\* channel of its reassembled heatmap has as many rows as the valid heights of
\* the image's tiles sum to, holds no padding row, and holds the image's rows
\* once each, in order.
C5_HeatmapRowsAreValidRows ==
    Yielded =>
        \A j \in 1..Len(batch_images) : \A k \in 1..HeatmapCount :
            /\ Len(preds[j][k]) = ValidHeights(j - 1)
            /\ \A r \in 1..Len(preds[j][k]) : preds[j][k][r][2] # Pad
            /\ preds[j][k] = [r \in 1..Height(batch_images[j]) |->
                                 <<k, <<batch_images[j].tag, r - 1>> >>]

\* ceil(H / W): the least n with n * W >= H
CeilDiv(H, W) == CHOOSE n \in 0..H : n * W >= H /\ (n = 0 \/ (n - 1) * W < H)

\* the tiles of the image are as many as get_total_splits counts, lie top to
\* bottom, and their valid heights sum to the image's height
TilesAsCounted(image, W) ==
    LET sp == split_image(image, W)
        n == get_total_splits(image.size, W)
    IN  /\ n = CeilDiv(Height(image), W)
        /\ Len(sp.parts) = n
        /\ Len(sp.heights) = n
        /\ SeqSum(sp.heights) = Height(image)
        /\ \A t \in 1..n :
              /\ sp.heights[t] \in 1..W
              /\ sp.parts[t] = [r \in 1..W |->
                                  IF r <= sp.heights[t]
                                  THEN <<image.tag, (t - 1) * W + r - 1>> ELSE Pad]

\* the tile total the planner counts for the batch (line 43)
CountedTiles ==
    SeqSum([j \in 1..Len(batch_images) |->
               get_total_splits(batch_images[j].size, processor_height)])

IsImageRow(row) == row[2] # Pad
ImageRows(heatmap) == SelectSeq(heatmap, IsImageRow)

\* q continues p below: p is the upper part of q
IsPrefix(p, q) == Len(p) <= Len(q) /\ SubSeq(q, 1, Len(p)) = p

\* C14: an inference call yields one prediction per image of the batch, in the
\* batch's image order, each of heatmap_count channels, with the list of the
\* images' original sizes in the same order.  The first tile met for an image
\* creates the image's entry and every later tile of the image goes below what
\* the entry holds, so that channel k holds the image's rows top to bottom.
C14_OnePredictionPerImage ==
    /\ [](Yielded =>
             /\ Len(preds) = Len(batch_images)
             /\ \A j \in 1..Len(preds) :
                   /\ Len(preds[j]) = HeatmapCount
                   /\ \A k \in 1..HeatmapCount :
                         ImageRows(preds[j][k]) =
                             [r \in 1..Height(batch_images[j]) |->
                                 <<k, <<batch_images[j].tag, r - 1>> >>]
             /\ InferBatch(batch_images, processor_height) =
                    <<preds, [j \in 1..Len(batch_images) |-> batch_images[j].size]>>)
    /\ [][(tile_pc = "reassemble" /\ tile_i' = tile_i + 1) =>
             LET idx == splits.split_index[tile_i + 1]
             IN  IF Len(preds) <= idx
                 THEN /\ idx = Len(preds)
                      /\ preds' = Append(preds, logits[tile_i + 1])
                 ELSE /\ idx = Len(preds) - 1
                      /\ Len(preds') = Len(preds)
                      /\ \A j \in 1..Len(preds) : \A k \in 1..HeatmapCount :
                            IF j = idx + 1
                            THEN /\ IsPrefix(preds[j][k], preds'[j][k])
                                 /\ Len(preds'[j][k]) > Len(preds[j][k])
                            ELSE preds'[j][k] = preds[j][k]]_vars

\* A batch of two images has been reassembled, the first of them of three tiles.
C14_Witness ==
    /\ Yielded
    /\ Len(batch_images) = 2
    /\ Cardinality({i \in 1..Len(splits.split_index) : splits.split_index[i] = 0}) >= 3

(***************************************************************************)
(* Claims about the planner.                                               *)
(***************************************************************************)
Planned == plan_pc = "planned"

\* C3: the planned batches, concatenated in batch order, list the image
\* indices 0..N-1 exactly once each in input order (so every image, with all
\* its tiles, lies in one batch), and a batch's total tile count exceeds the
\* budget only if the batch is a single image whose own tile count exceeds it.
C3_PlannerOrderAndSoftCap ==
    Planned =>
        /\ Flatten(plan.batches) = Range0(Len(splits_per_image))
        /\ \A b \in 1..Len(plan.batches) :
              BatchTiles(plan.batches[b], splits_per_image) > batch_size
                  => /\ Len(plan.batches[b]) = 1
                     /\ splits_per_image[plan.batches[b][1] + 1] > batch_size

\* A plan with an over-budget single-image batch next to a batch of several images.
C3_Witness ==
    /\ Planned
    /\ \E b \in 1..Len(plan.batches) :
          BatchTiles(plan.batches[b], splits_per_image) > batch_size
    /\ \E b \in 1..Len(plan.batches) : Len(plan.batches[b]) >= 2

IsScenario == <<splits_per_image, batch_size>> = Scenario

\* C4 as stated: for tile counts [3,3,1,1,1,1,1,1,1,1] and budget 4 the planner
\* yields [image0], [image1] alone, and two batches of four one-tile images.
C4_ScenarioAsStated ==
    (Planned /\ IsScenario) =>
        plan.batches = << <<0>>, <<1>>, <<2, 3, 4, 5>>, <<6, 7, 8, 9>> >>

\* C4 amended: for tile counts [3,3,1,1,1,1,1,1,1,1] and budget 4 the planner
\* yields exactly 4 batches, [image0], [image1, image2], [image3..image6] and
\* [image7..image9]; every image appears exactly once, in order.
C4_ScenarioAmended ==
    (Planned /\ IsScenario) =>
        /\ plan.batches = << <<0>>, <<1, 2>>, <<3, 4, 5, 6>>, <<7, 8, 9>> >>
        /\ Len(plan.batches) = 4
        /\ Flatten(plan.batches) = Range0(10)

C4_Witness == Planned /\ IsScenario /\ Len(plan.batches) = 4

\* C19: every planned batch holds at least one image (an empty input yields no
\* batch); of two consecutive batches, the tiles of the earlier one plus the
\* tiles of the first image of the later one exceed the budget; and the loop
\* closes a batch only when the image at hand does not fit into it.
C19_GreedyMaximalNonEmpty ==
    /\ [](\A b \in 1..Len(plan.batches) : Len(plan.batches[b]) >= 1)
    /\ []((Planned /\ splits_per_image = <<>>) => plan.batches = <<>>)
    /\ [](Planned =>
             \A b \in 1..(Len(plan.batches) - 1) :
                 BatchTiles(plan.batches[b], splits_per_image)
                     + splits_per_image[plan.batches[b + 1][1] + 1] > batch_size)
    /\ [][(plan_pc' = "loop" /\ plan'.batches # plan.batches) =>
             /\ plan.current_batch # <<>>
             /\ plan'.batches = Append(plan.batches, plan.current_batch)
             /\ plan.current_batch_size + splits_per_image[plan_i + 1] > batch_size
             /\ plan'.current_batch = <<plan_i>>]_vars

\* A plan of three batches or more, one of them of several images.
C19_Witness ==
    /\ Planned
    /\ Len(plan.batches) >= 3
    /\ \E b \in 1..Len(plan.batches) : Len(plan.batches[b]) >= 2

\* C20: the budget is the batch_size argument if it is not None, 0 included;
\* otherwise DETECTOR_BATCH_SIZE if it is set; otherwise 36 on cuda and 8 on
\* every other device; and the planner runs with that budget.
C20_BudgetPriority ==
    /\ [][plan_pc = "resolve" =>
            /\ plan_pc' = "loop"
            /\ batch_size' =
                  IF ~IsNone(batch_size) THEN batch_size
                  ELSE IF ~IsNone(settings.DETECTOR_BATCH_SIZE)
                       THEN settings.DETECTOR_BATCH_SIZE
                       ELSE IF settings.TORCH_DEVICE_MODEL = "cuda" THEN 36 ELSE 8]_vars
    /\ [][plan_pc # "resolve" => batch_size' = batch_size]_vars
    /\ [](plan_pc # "resolve" => ~IsNone(batch_size))

\* The planner has run with an explicit budget of 0 although an override is
\* configured: every image is a batch of its own.
C20_Witness ==
    /\ Planned
    /\ batch_size = 0
    /\ settings.DETECTOR_BATCH_SIZE > 0
    /\ Len(plan.batches) = MaxBudgetImages

(***************************************************************************)
(* Claims about the pipeline.                                              *)
(***************************************************************************)
Returned == m_pc = "returned"
ProducerFailed == p_pc = "failed"
ConsumerFailed == c_pc \in {"unwind", "failed"}
AnyFailure == ProducerFailed \/ ConsumerFailed

\* the producer waits in put on a full queue; the consumer in get on an empty one
ProducerBlocked == p_pc \in {"put", "put_none"} /\ Len(batch_queue) >= QueueMaxsize
ConsumerBlocked == c_pc = "get" /\ batch_queue = <<>>

\* the geometry extraction of image i's prediction, reassembled from the
\* image's own tiles, with the image's original size
Expected(i) ==
    parallel_get_lines(InferBatch(<<images[i]>>, processor_height)[1][1], images[i].size)

\* C1 as stated: whenever batch_text_detection returns, results has N entries,
\* the i-th being the geometry extraction of the i-th image's reassembled
\* prediction with image_bbox [0, 0, width_i, height_i], however the images
\* were batched.  (Stated for the runs in which every batch was inferred.)
C1_ResultsMatchInputs ==
    (Returned /\ ~ProducerFailed) => results = [i \in 1..Len(images) |-> Expected(i)]

\* The same for the runs in which no step fails.
ResultsMatchInputsIfNothingFails ==
    (Returned /\ ~AnyFailure) => results = [i \in 1..Len(images) |-> Expected(i)]

\* what the in-process loop appends, batch after batch, when it runs to its end
InProcessResults ==
    LET planned == PlanBatches(
                       [j \in 1..Len(images) |->
                           get_total_splits(images[j].size, processor_height)],
                       ResolveBatchSize(batch_size, settings))
        OfBatch(b) == LET y == InferBatch(BatchImages(planned[b]), processor_height)
                      IN  [k \in 1..Len(y[1]) |-> parallel_get_lines(y[1][k], y[2][k])]
    IN  Flatten([b \in 1..Len(planned) |-> OfBatch(b)])

\* the image each result stems from: the tag of its heatmap's first row
ResultOrder(rs) == [i \in 1..Len(rs) |-> rs[i].heatmap[1][2][1]]

\* C2 as stated: a run with fan-out returns a result sequence of length N in
\* the order of the run of the in-process loop on the same images and budget.
\* (Stated for the runs in which every batch was inferred.)
C2_FanOutSameAsInProcess ==
    (Returned /\ parallelize /\ ~ProducerFailed) =>
        /\ Len(results) = Len(images)
        /\ ResultOrder(results) = ResultOrder(InProcessResults)

\* The same for the runs in which no step fails.
FanOutSameAsInProcessIfNothingFails ==
    (Returned /\ parallelize /\ ~AnyFailure) =>
        /\ Len(results) = Len(images)
        /\ ResultOrder(results) = ResultOrder(InProcessResults)

Done ==
    /\ Returned
    /\ p_pc = "done"
    /\ c_pc = "done"
    /\ gen.state = "exhausted"
    /\ batch_queue = <<>>

\* the sentinel is enqueued after the last batch, as the producer's last act
SentinelLast ==
    \A i \in 1..Len(batch_queue) :
        batch_queue[i] = Sentinel =>
            /\ i = Len(batch_queue)
            /\ p_pc = "done"
            /\ gen.state = "exhausted"
            /\ gen.batch_idx = Len(gen.batches)

\* C6: when no step fails, for every number of batches the producer enqueues
\* the sentinel after its last batch, the consumer dequeues it and leaves its
\* loop, both threads end and batch_text_detection returns; and in no state
\* is the producer blocked in put while the consumer is blocked in get.
C6_TerminatesWhenNothingFails ==
    /\ [](SentinelLast /\ ~(ProducerBlocked /\ ConsumerBlocked))
    /\ <>(AnyFailure \/ Done)

\* A run of more batches than the queue holds has ended without a failure.
C6_Witness == Done /\ ~AnyFailure /\ Len(gen.batches) > QueueMaxsize

\* C7 as stated: once the producer has failed on a batch, the call is on its
\* way to failing: the consumer is not left waiting on the empty queue (which
\* nothing will fill any more) and the call does not return normally.
C7_ProducerFailureAborts ==
    (ProducerFailed /\ model_calls # <<>>) => (~ConsumerBlocked /\ ~Returned)

\* C8 as stated: once geometry extraction has failed (and nothing else has),
\* the call does not return normally with fewer than N results, and the
\* producer is not left waiting on the full queue (which nothing will drain
\* any more).
C8_ExtractionFailureAborts ==
    (c_pc = "failed" /\ ~ProducerFailed) =>
        /\ ~(Returned /\ Len(results) < Len(images))
        /\ ~ProducerBlocked

HasNonImage == \E j \in 1..Len(images) : ~images[j].is_image

\* C9 as stated: with an element that is not an image the call fails fast: no
\* batch is planned, the model is never invoked, and the error is delivered to
\* the caller, so the call is never left with the producer thread dead and the
\* consumer waiting on the empty queue.
C9_NonImageFailsFast ==
    HasNonImage =>
        /\ gen.batches = <<>>
        /\ model_calls = <<>>
        /\ ~(ProducerFailed /\ ConsumerBlocked)

\* C10: the queue never holds more than 4 entries; a put on a full queue does
\* not complete before an entry is removed, and a get on an empty queue does
\* not complete before an entry is added.
C10_BoundedQueueBackpressure ==
    /\ [](Len(batch_queue) <= QueueMaxsize)
    /\ [][ProducerBlocked => (p_pc' = p_pc /\ Len(batch_queue') <= Len(batch_queue))]_vars
    /\ [][ConsumerBlocked => (c_pc' = c_pc /\ Len(batch_queue') >= Len(batch_queue))]_vars

\* The producer waits in put with a batch in hand and the queue full.
C10_Witness == p_pc = "put" /\ Len(batch_queue) = QueueMaxsize /\ c_pc # "failed"

(***************************************************************************)
(* The queue protocol.                                                     *)
(***************************************************************************)
\* the tuple the generator yields for the b-th planned batch
YieldOf(b) == InferBatch(BatchImages(gen.batches[b]), processor_height)

\* the tuples the generator yields when it runs to its end, in planned order
Yields == [b \in 1..Len(gen.batches) |-> YieldOf(b)]

\* the geometry extractions of one yielded tuple, in the tuple's order
ExtractAll(y) == [j \in 1..Len(y[1]) |-> parallel_get_lines(y[1][j], y[2][j])]

\* the geometry extractions of the first k yielded tuples, batch after batch
ResultsOf(k) == Flatten([b \in 1..k |-> ExtractAll(YieldOf(b))])

IsBatchTuple(e) == e # Sentinel

\* the batch tuples the queue has accepted so far, those still in it, and the
\* number the consumer has taken out
Enqueued == gen.batch_idx - (IF p_pc = "put" THEN 1 ELSE 0)
QueuedBatches == SelectSeq(batch_queue, IsBatchTuple)
Dequeued == Enqueued - Len(QueuedBatches)

\* the consumer holds a tuple whose results are not appended yet
InHand == c_pc \in {"map", "loop", "lock", "extend"}
SeenSentinel == c_pc \in {"close_pool", "done"}

\* In every state: the queue holds, in planned order, the tuples enqueued and
\* not yet dequeued, and the sentinel at most once, last; the consumer holds
\* the tuple dequeued last, and the results are those of the tuples dequeued
\* before it, each once; after the sentinel nothing is left.
QueueProtocol ==
    /\ SentinelLast
    /\ Dequeued >= 0
    /\ QueuedBatches = SubSeq(Yields, Dequeued + 1, Enqueued)
    /\ InHand => c_batch = Yields[Dequeued]
    /\ results = ResultsOf(Dequeued - (IF InHand \/ ConsumerFailed THEN 1 ELSE 0))
    /\ SeenSentinel =>
          /\ batch_queue = <<>>
          /\ p_pc = "done"
          /\ Dequeued = Len(gen.batches)

\* C12 as stated: in every execution the producer enqueues the batch tuples in
\* planned order and then the sentinel once, as its last entry; the consumer
\* dequeues in that order, post-processes every tuple exactly once and none
\* after the sentinel; and when the call returns the queue is empty.  (Stated
\* for the runs in which every batch was inferred.)
C12_FifoExactlyOnce ==
    /\ QueueProtocol
    /\ (Returned /\ ~ProducerFailed) =>
          /\ batch_queue = <<>>
          /\ results = ResultsOf(Len(gen.batches))

\* The same for the executions in which the consumer does not fail.
FifoExactlyOnceIfConsumerSurvives ==
    /\ QueueProtocol
    /\ (Returned /\ ~ConsumerFailed) =>
          /\ batch_queue = <<>>
          /\ results = ResultsOf(Len(gen.batches))

\* C13: the result sequence is modified only by the consumer thread, only
\* while it holds the result lock, only by appending the complete result list
\* of the batch in hand in one step (a step of the consumer alone, the producer
\* and the calling thread standing still); in every state it is the
\* concatenation of the complete result lists of a prefix of the batches.
C13_ResultsAppendedWholeUnderLock ==
    /\ [](\E k \in 0..Len(gen.batches) : results = ResultsOf(k))
    /\ [](result_lock = "consumer" <=> c_pc \in {"extend", "unlock"})
    /\ [][results' # results =>
            /\ c_pc = "extend"
            /\ c_pc' = "unlock"
            /\ result_lock = "consumer"
            /\ Len(batch_results) = Len(c_batch[1])
            /\ results' = results \o batch_results
            /\ UNCHANGED <<m_pc, producerVars>>]_vars

\* The results of a second or later batch, of two images, have just been
\* appended and the lock is still held.
C13_Witness ==
    /\ c_pc = "unlock"
    /\ result_lock = "consumer"
    /\ Dequeued >= 2
    /\ Len(batch_results) >= 2
    /\ Len(results) > Len(batch_results)

\* the consumer is in its loop, or leaving it
InLoop == c_pc \in {"get", "map", "lock", "extend", "unlock", "close_pool", "unwind"}

\* C15: with fan-out selected the pool is opened once, before the consumer
\* dequeues its first entry, stays open for every batch, and is closed once,
\* when the consumer has left its loop, by the sentinel or by a failure during
\* a batch, and before the call returns.
C15_PoolOpenedAndClosedOnce ==
    /\ [](c_pc \in {"idle", "start"} => (executor = "none" /\ Dequeued = 0))
    /\ []((parallelize /\ InLoop) => executor = "open")
    /\ []((parallelize /\ c_pc \in {"done", "failed"}) => executor = "closed")
    /\ []((parallelize /\ Returned) => executor = "closed")
    /\ [][executor' # executor =>
            \/ /\ executor = "none"
               /\ executor' = "open"
               /\ parallelize
               /\ c_pc = "start"
            \/ /\ executor = "open"
               /\ executor' = "closed"
               /\ c_pc \in {"close_pool", "unwind"}
               /\ c_pc' \in {"done", "failed"}]_vars

\* A worker failed in a second or later batch; the pool, used for the batches
\* before, is closed and the call has returned.
C15_Witness ==
    /\ Returned
    /\ c_pc = "failed"
    /\ executor = "closed"
    /\ results # <<>>

\* what line 133 selects for the call's images and settings
FanOutWanted ==
    /\ ~settings.IN_STREAMLIT
    /\ Len(images) >= settings.DETECTOR_MIN_PARALLEL_THRESH

\* C16: fan-out is decided once per call, before either thread starts, and
\* never changes afterwards; it is selected if and only if IN_STREAMLIT is
\* false and the images are at least DETECTOR_MIN_PARALLEL_THRESH; with it the
\* consumer hands every batch to the pool, without it the consumer extracts
\* every batch in its own loop.
C16_FanOutDecidedOnce ==
    /\ [](m_pc = "call" => (p_pc = "idle" /\ c_pc = "idle"))
    /\ [](m_pc # "call" => (parallelize <=> FanOutWanted))
    /\ [](c_pc \in {"map", "close_pool", "unwind"} => parallelize)
    /\ [](c_pc = "loop" => ~parallelize)
    /\ [](futures # <<>> => parallelize)
    /\ [][parallelize' # parallelize => (m_pc = "call" /\ m_pc' = "start_producer")]_vars

\* Fan-out at the threshold: exactly DETECTOR_MIN_PARALLEL_THRESH images, a
\* batch handed to the pool.
C16_Witness ==
    /\ c_pc = "map"
    /\ Len(images) = settings.DETECTOR_MIN_PARALLEL_THRESH
    /\ ~settings.IN_STREAMLIT

\* C17: the model is invoked once per planned batch, in batch order (every
\* batch once the generator is exhausted); a call is made only when the tuple
\* of the batch before has left the producer's hands for the queue, and no
\* call follows one that raised.
C17_OneModelCallPerBatch ==
    /\ [](/\ Len(model_calls) <= Len(gen.batches)
          /\ \A i \in 1..Len(model_calls) :
                /\ model_calls[i][1] = i - 1
                /\ model_calls[i][2] = "raised" => i = Len(model_calls))
    /\ [](gen.state = "exhausted" =>
             model_calls = [b \in 1..Len(gen.batches) |-> <<b - 1, "returned">>])
    /\ [][model_calls' # model_calls =>
            /\ Len(model_calls') = Len(model_calls) + 1
            /\ p_pc = "next"
            /\ p_batch = Sentinel
            /\ IF model_calls'[Len(model_calls')][2] = "returned"
               THEN p_pc' = "put" /\ p_batch' = YieldOf(Len(model_calls'))
               ELSE p_pc' = "failed"]_vars
    /\ [][p_pc = "put" =>
            /\ model_calls' = model_calls
            /\ p_pc' # "put" =>
                  /\ p_pc' = "next"
                  /\ batch_queue' = Append(batch_queue, p_batch)]_vars
    /\ [][ProducerFailed => (ProducerFailed' /\ model_calls' = model_calls)]_vars

\* The model returned for the first batches and raised for a later one; the
\* producer has ended.
C17_Witness ==
    /\ ProducerFailed
    /\ Len(model_calls) >= 3
    /\ model_calls[Len(model_calls)][2] = "raised"
    /\ Len(model_calls) < Len(gen.batches)

\* the batches whose model call has returned, and those whose results are in
\* the result sequence
Inferred == Cardinality({i \in 1..Len(model_calls) : model_calls[i][2] = "returned"})
Appended ==
    CHOOSE k \in 0..Len(gen.batches) :
        Len(results) = SeqSum([b \in 1..k |-> Len(gen.batches[b])])
InFlight == Inferred - Appended

\* C18: in every state at most 6 batches are inferred and not yet appended
\* to the results: the 4 of the queue, one with the producer waiting in put
\* and one with the consumer; however many batches there are.
C18_InferenceRunsAtMostSixAhead == InFlight <= QueueMaxsize + 2

\* Of more than six batches, six are inferred and not appended.
C18_Witness ==
    /\ InFlight = QueueMaxsize + 2
    /\ Len(gen.batches) > QueueMaxsize + 2
    /\ ~AnyFailure

=============================================================================
